---- MODULE Spec2Model ----
(***************************************************************************)
(* Model of the batch grading path of src/gas_dist/Code.js (the current   *)
(* revision, lines 1-706): submitAnswers -> _gradeWithGemini ->           *)
(* _callGeminiApi, followed by the two sink writes _updateScoreTable and  *)
(* _saveResponseLog.  One behaviour of the model is one call of           *)
(* submitAnswers(answers, sessionId) against a given Questions sheet.      *)
(*                                                                         *)
(* Opaque strings that only flow into the prompt text (question text,      *)
(* criteria, image URL, model answer) carry no control flow and are left   *)
(* out of the records.                                                     *)
(***************************************************************************)
EXTENDS Integers, Sequences, FiniteSets, TLC

VARIABLES
    questions,    \* rows of the Questions sheet as getQuestions() returns them
    answers,      \* argument of submitAnswers: question id -> answer value
    sessionId,    \* argument of submitAnswers ("" when absent)
    apiKey,       \* TRUE iff script property GEMINI_API_KEY is set
    pc,           \* position of the single control flow
    problemList,  \* _gradeWithGemini: flattened items
    i,            \* _gradeWithGemini: offset of the current chunk (0-based)
    chunks,       \* _gradeWithGemini: the value of `chunk` in each iteration so far
    prompt,       \* _gradeWithGemini: prompt of the current chunk
    retryCount,   \* _callGeminiApi: retryCount
    fetchCount,   \* UrlFetchApp.fetch calls issued by the current _callGeminiApi
    inflight,     \* HTTP requests issued and not yet answered
    requested,    \* chunk numbers for which a request has been issued
    response,     \* outcome of the last UrlFetchApp.fetch
    sleeps,       \* Utilities.sleep durations (ms) of the current chunk iteration
    allResults,   \* _gradeWithGemini: allResults / submitAnswers: gradingResults
    outcomes,     \* per completed chunk: how its request ended, results contributed
    totalScore,   \* submitAnswers: totalScore
    scoreTable,   \* rows of the score table sheet
    responseLog,  \* rows of the Responses sheet
    returned,     \* value the call returned
    stub,         \* scripted endpoint of a repeated call, and what the first call gave
    request,      \* the administration call made last, with its arguments
    patterns,     \* the Patterns sheet: whether it exists, and its data rows
    now,          \* the clock new Date() reads
    currentPatternTitle  \* script property CURRENT_PATTERN_TITLE (Null when absent)

vars == <<questions, answers, sessionId, apiKey, stub, request, patterns, now,
          currentPatternTitle, pc, problemList, i, chunks,
          prompt,
          retryCount, fetchCount, inflight, requested, response, sleeps,
          allResults, outcomes, totalScore, scoreTable, responseLog, returned>>

(***************************************************************************)
(* Program constants and model bounds                                      *)
(***************************************************************************)
CHUNK_SIZE == 5

MAX_RETRIES == 3

\* at most MaxQ questions on the sheet
MaxQ == 2

\* at most MaxEntries entries in the array a model response carries
MaxEntries == 2

\* how far the clock runs
MaxClock == 3

\* a question has no sub-questions, or this many
SubCounts == {0, 3}

QIds == <<"q1", "q2", "q3", "q4">>

SubIds == <<"a", "b", "c", "d">>

\* points of the k-th question and of the j-th sub-question of a question
QPoints == <<10, 5, 3, 1>>

SubPoints == <<3, 5, 4, 10>>

Null == "null"

Undefined == "undefined"

(***************************************************************************)
(* JavaScript values that reach a coercion or a typeof test                *)
(***************************************************************************)
Num(n) == [t |-> "number", n |-> n, s |-> ""]

Str(s) == [t |-> "string", n |-> 0, s |-> s]

JNull == [t |-> "null", n |-> 0, s |-> ""]

JUndefined == [t |-> "undefined", n |-> 0, s |-> ""]

\* the JSON number 1e999, which JSON.parse reads as the double Infinity
Overflow == [t |-> "number", n |-> 0, s |-> "1e999"]

\* the double Infinity among the integer scores of the model: a value above
\* every finite score and every finite total that occurs
Infinity == 1000000

\* sum + r.score on doubles: Infinity absorbs every finite term
Plus(a, b) == IF a = Infinity \/ b = Infinity THEN Infinity ELSE a + b

Min(a, b) == IF a < b THEN a ELSE b

\* mutant: only positive scores are added up
RECURSIVE SumScores_Positive(_)
SumScores_Positive(rs) ==
    IF rs = <<>> THEN 0
    ELSE Plus(IF rs[1].score > 0 THEN rs[1].score ELSE 0, SumScores_Positive(Tail(rs)))

RECURSIVE SumScores(_)
SumScores(rs) ==
    IF rs = <<>> THEN 0 ELSE Plus(rs[1].score, SumScores(Tail(rs)))

RECURSIVE Concat(_)
Concat(ss) == IF ss = <<>> THEN <<>> ELSE ss[1] \o Concat(Tail(ss))

(***************************************************************************)
(* Inputs: the Questions sheet and the answers                             *)
(***************************************************************************)
SubQuestion(j) == [id |-> SubIds[j], points |-> SubPoints[j]]

Question(k, nsub) ==
    [id |-> QIds[k], points |-> QPoints[k],
     subQuestions |-> [j \in 1..nsub |-> SubQuestion(j)]]

Shapes == UNION {[1..n -> SubCounts] : n \in 0..MaxQ}

Bank(shape) == [k \in 1..Len(shape) |-> Question(k, shape[k])]

\* answers[q.id] as a JavaScript value: a string, or an object sub id -> string
StringAnswer(s) == [t |-> "string", s |-> s, m |-> <<>>]

ObjectAnswer(m) == [t |-> "object", s |-> "", m |-> m]

\* The answer sheet submitted: the first question is answered (a plain one
\* with a string, one with sub-questions with an object that holds its
\* first sub-question only), every other question has no key.
AnswerSheet(qs) ==
    [id \in {qs[k].id : k \in 1..Min(1, Len(qs))} |->
        IF Len(qs[1].subQuestions) = 0
        THEN StringAnswer("A")
        ELSE ObjectAnswer([sid \in {qs[1].subQuestions[1].id} |-> "A"])]

\* what the caller can put under the key of a question: text for a plain
\* question; for a question with sub-questions text (not the expected
\* object) or an object with any of the sub-question keys
AnswerValues(q) ==
    IF Len(q.subQuestions) = 0
    THEN {StringAnswer(""), StringAnswer("A")}
    ELSE {StringAnswer("A")}
            \cup {ObjectAnswer([sid \in ks |-> "A"]) :
                    ks \in SUBSET {q.subQuestions[j].id : j \in 1..Len(q.subQuestions)}}

\* every answer mapping: any subset of the question ids as keys
AnswerMaps(qs) ==
    UNION {{m \in [{qs[k].id : k \in ks} -> UNION {AnswerValues(qs[k]) : k \in ks}] :
                \A k \in ks : m[qs[k].id] \in AnswerValues(qs[k])} :
            ks \in SUBSET (1..Len(qs))}

(***************************************************************************)
(* _gradeWithGemini: mock path, flattening, chunking, prompt               *)
(***************************************************************************)
\* mutant: the mock score rounded up instead of down
MockScore_Ceil(points) == (points * 8 + 9) \div 10

MockScore(points) == (points * 8) \div 10

MockSub(q) ==
    [j \in 1..Len(q.subQuestions) |->
        [questionId |-> q.id, subQuestionId |-> q.subQuestions[j].id,
         score |-> MockScore(q.subQuestions[j].points),
         reason |-> "(Mock) Sub-question graded."]]

MockPlain(q) ==
    <<[questionId |-> q.id, subQuestionId |-> Undefined,
       score |-> MockScore(q.points), reason |-> "(Mock) Graded."]>>

MockGrade(qs) ==
    Concat([k \in 1..Len(qs) |->
        IF Len(qs[k].subQuestions) > 0 THEN MockSub(qs[k]) ELSE MockPlain(qs[k])])

\* (answers[q.id] && answers[q.id][sq.id]) || ""
SubAnswer(ans, q, sq) ==
    IF q.id \notin DOMAIN ans THEN StringAnswer("")
    ELSE IF ans[q.id].t = "string" THEN StringAnswer("")
    ELSE IF sq.id \notin DOMAIN ans[q.id].m THEN StringAnswer("")
    ELSE StringAnswer(ans[q.id].m[sq.id])

\* mutant: a missing key is passed on as undefined
PlainAnswer_NoDefault(ans, q) ==
    IF q.id \notin DOMAIN ans THEN [t |-> "undefined", s |-> "", m |-> <<>>]
    ELSE ans[q.id]

\* answers[q.id] || ""
PlainAnswer(ans, q) ==
    IF q.id \notin DOMAIN ans THEN StringAnswer("") ELSE ans[q.id]

\* mutant: a question with sub-questions also contributes an item of its own
FlattenQuestion_WithParent(q, ans) ==
    <<[type |-> "normal", qId |-> q.id, sqId |-> Null,
       points |-> q.points, studentAnswer |-> PlainAnswer(ans, q)]>>
    \o [j \in 1..Len(q.subQuestions) |->
            [type |-> "sub", qId |-> q.id, sqId |-> q.subQuestions[j].id,
             points |-> q.subQuestions[j].points,
             studentAnswer |-> SubAnswer(ans, q, q.subQuestions[j])]]

FlattenQuestion(q, ans) ==
    IF Len(q.subQuestions) > 0
    THEN [j \in 1..Len(q.subQuestions) |->
            [type |-> "sub", qId |-> q.id, sqId |-> q.subQuestions[j].id,
             points |-> q.subQuestions[j].points,
             studentAnswer |-> SubAnswer(ans, q, q.subQuestions[j])]]
    ELSE <<[type |-> "normal", qId |-> q.id, sqId |-> Null,
            points |-> q.points, studentAnswer |-> PlainAnswer(ans, q)]>>

Flatten(qs, ans) == Concat([k \in 1..Len(qs) |-> FlattenQuestion(qs[k], ans)])

\* mutant: the slice stops one item early
ChunkSlice_Short(list, off) ==
    SubSeq(list, off + 1, Min(off + CHUNK_SIZE - 1, Len(list)))

\* problemList.slice(i, i + CHUNK_SIZE)
ChunkSlice(list, off) == SubSeq(list, off + 1, Min(off + CHUNK_SIZE, Len(list)))

ChunkNo(off) == off \div CHUNK_SIZE + 1

\* one "No.k" entry of the prompt text
PromptEntry(p) ==
    [id |-> IF p.sqId # Null THEN p.qId \o "_" \o p.sqId ELSE p.qId,
     points |-> p.points,
     answer |-> IF p.studentAnswer.t # "string" THEN "json"
                ELSE IF p.studentAnswer.s = "" THEN "(unanswered)"
                ELSE p.studentAnswer.s]

BuildPrompt(chunk, off) ==
    [chunkNo |-> ChunkNo(off), entries |-> [k \in 1..Len(chunk) |-> PromptEntry(chunk[k])]]

NoPrompt == [chunkNo |-> 0, entries |-> <<>>]

\* mutant: the loop body is entered whatever the length of the list
LoopEntry_Always(list) == "chunk"

\* if (problemList.length === 0) return []; and the loop condition at i = 0
LoopEntry(list) == IF Len(list) = 0 THEN "graded" ELSE "chunk"

(***************************************************************************)
(* The endpoint: what one UrlFetchApp.fetch can produce                    *)
(***************************************************************************)
Entry(idx, score) ==
    [t |-> "object", index |-> idx, score |-> score, reason |-> "fb", elems |-> <<>>]

\* an entry for the first item (its score is within the points of a plain
\* first question and above those of a first sub-question), a negative
\* score for the second item (out of range in a one-item chunk), a negative
\* index
Entries ==
    {Entry(Num(0), Num(10)), Entry(Num(1), Num(-1)), Entry(Num(-1), Num(3))}

\* scores other than plain numbers: a numeric string, a non-numeric string,
\* null, no score property, a number beyond the range of a double
ScoreVariants == {Str("7"), Str("abc"), JNull, JUndefined, Overflow}

Array(es) ==
    [t |-> "array", index |-> JUndefined, score |-> JUndefined, reason |-> "", elems |-> es]

Primitive(t) ==
    [t |-> t, index |-> JUndefined, score |-> JUndefined, reason |-> "", elems |-> <<>>]

ParsedValues ==
    {Array(es) : es \in UNION {[1..n -> Entries] : n \in 0..MaxEntries}}
        \cup {Entry(Num(0), Num(10)), Entry(Str("0"), Num(10))}
        \cup {Entry(Num(0), sc) : sc \in ScoreVariants}
        \cup {Primitive("number"), Primitive("null")}

NoValue == Primitive("undefined")

\* The candidate text of an HTTP 200 body, after fence stripping: the JSON
\* value it spells out, whether prose surrounds the JSON, and the kind of
\* backslash sequence the reason strings contain ("none": no backslash,
\* "newline": \n, "quote": \", "invalid": a backslash JSON does not allow,
\* such as \O; "dnewline", "dquote", "dinvalid": the same with the
\* backslash doubled).
Text(v, prose, esc) == [kind |-> "json", value |-> v, prose |-> prose, esc |-> esc]

\* candidate texts with prose or backslashes, around a one-entry array
TextVariants ==
    {Text(Array(<<Entry(Num(0), Num(10))>>), pe[1], pe[2]) :
        pe \in {<<TRUE, "none">>, <<TRUE, "newline">>, <<TRUE, "quote">>,
                <<FALSE, "quote">>, <<FALSE, "invalid">>}}

\* HTTP 200 bodies: a candidate text, a body without candidates, a body
\* that is no JSON at all or whose text holds no JSON
Bodies ==
    {Text(v, FALSE, "none") : v \in ParsedValues}
        \cup TextVariants
        \cup {[kind |-> "nocandidates", value |-> NoValue, prose |-> FALSE, esc |-> "none"],
              [kind |-> "unparseable", value |-> NoValue, prose |-> FALSE, esc |-> "none"]}

NoBody == [kind |-> "none", value |-> NoValue, prose |-> FALSE, esc |-> "none"]

ErrorStatuses == {400, 403, 429, 500, 503}

FetchOutcomes ==
    {[kind |-> "exception", code |-> 0, body |-> NoBody]}
        \cup {[kind |-> "http", code |-> c, body |-> NoBody] : c \in ErrorStatuses}
        \cup {[kind |-> "http", code |-> 200, body |-> b] : b \in Bodies}

NoResponse == [req |-> 0, kind |-> "none", code |-> 0, body |-> NoBody]

(***************************************************************************)
(* _callGeminiApi: what the retry loop does with one fetch outcome         *)
(***************************************************************************)
\* mutant: the cap compared with > instead of >=
RetryExhausted_OffByOne(rc) == rc > MAX_RETRIES

RetryExhausted(rc) == rc >= MAX_RETRIES

\* mutant: every error status is retried
IsRetryable_AnyError(code) == code >= 400

IsRetryable(code) == code = 429 \/ (code >= 500 /\ code < 600)

Return(v) == [kind |-> "return", value |-> v, message |-> ""]

Throw(msg) == [kind |-> "throw", value |-> NoValue, message |-> msg]

Retry == [kind |-> "retry", value |-> NoValue, message |-> ""]

\* JSON.parse(text) throws on prose around the value, on a backslash
\* sequence JSON does not allow, and on \\" inside a string (the string ends
\* at the quote and text follows it)
Parses(text) == ~text.prose /\ text.esc \notin {"invalid", "dquote"}

\* the reason string JSON.parse yields from the backslash sequence as written
ReadReason(esc) ==
    CASE esc = "none" -> "fb"
      [] esc = "newline" -> "fb LF"
      [] esc = "quote" -> "fb QUOTE"
      [] esc = "dnewline" -> "fb BACKSLASH n"
      [] esc = "dinvalid" -> "fb BACKSLASH O"

WithReason(v, reason) ==
    IF v.t = "object" THEN [v EXCEPT !.reason = reason]
    ELSE IF v.t = "array"
    THEN [v EXCEPT !.elems = [k \in 1..Len(v.elems) |->
            IF v.elems[k].t = "object" THEN [v.elems[k] EXCEPT !.reason = reason]
            ELSE v.elems[k]]]
    ELSE v

\* JSON.parse(text) where Parses(text)
JsonParse(text) == WithReason(text.value, ReadReason(text.esc))

\* jsonStr.match(/\[[\s\S]*\]/) || jsonStr.match(/\{[\s\S]*\}/)
HasMatch(text) == text.value.t \in {"array", "object"}

Match(text) == [text EXCEPT !.prose = FALSE]

\* .replace(/\\/g, '\\\\')
DoubleBackslashes(text) ==
    [text EXCEPT !.esc = CASE text.esc = "none" -> "none"
                           [] text.esc = "newline" -> "dnewline"
                           [] text.esc = "quote" -> "dquote"
                           [] text.esc = "invalid" -> "dinvalid"]

\* try JSON.parse(jsonStr); else JSON.parse of the match with backslashes
\* doubled; else rethrow the first error
ParseChain(text) ==
    IF Parses(text) THEN Return(JsonParse(text))
    ELSE IF HasMatch(text) /\ Parses(DoubleBackslashes(Match(text)))
    THEN Return(JsonParse(DoubleBackslashes(Match(text))))
    ELSE Throw("SyntaxError")

\* mutant: a 200 response without usable content is retried
Extract_RetryContentError(body) ==
    IF body.kind \in {"nocandidates", "unparseable"} THEN Retry
    ELSE ParseChain(body)

\* the 200 branch: candidate guard, fence stripping and the parse chain
Extract(body) ==
    IF body.kind = "nocandidates" THEN Throw("No candidates returned.")
    ELSE IF body.kind = "unparseable" THEN Throw("SyntaxError")
    ELSE ParseChain(body)

CallStep(o, rc) ==
    IF o.kind = "exception"
    THEN IF RetryExhausted(rc) THEN Throw("Exception: fetch failed") ELSE Retry
    ELSE IF o.code = 200 THEN Extract(o.body)
    ELSE IF IsRetryable(o.code)
    THEN IF RetryExhausted(rc)
         THEN Throw("API Error (" \o ToString(o.code) \o ") retry limit reached")
         ELSE Retry
    ELSE Throw("API Error (" \o ToString(o.code) \o ")")

\* mutant: a transport failure does not use up the retry budget
CountRetry_HttpOnly(rc, o) == IF o.kind = "exception" THEN rc ELSE rc + 1

\* retryCount++ in either retry branch
CountRetry(rc, o) == rc + 1

RECURSIVE Pow2(_)
Pow2(n) == IF n = 0 THEN 1 ELSE 2 * Pow2(n - 1)

\* mutant: the schedule starts at one second
BackoffMs_FromOne(rc) == Pow2(rc - 1) * 1000

\* Utilities.sleep(Math.pow(2, retryCount) * 1000)
BackoffMs(rc) == Pow2(rc) * 1000

(***************************************************************************)
(* _gradeWithGemini: mapping a response back to the chunk's items          *)
(***************************************************************************)
\* Number(r.score) || 0
NumericStrings == {"7"}

ToScore(v) ==
    IF v.t = "number" THEN (IF v = Overflow THEN Infinity ELSE v.n)
    ELSE IF v.t = "string" /\ v.s \in NumericStrings THEN 7
    ELSE 0

\* !Array.isArray(aiResponse) ? [aiResponse] : aiResponse
ChunkResults(aiResponse) ==
    IF aiResponse.t # "array" THEN <<aiResponse>> ELSE aiResponse.elems

\* r.index: a property read, which throws on null and undefined
ReadThrows(r) == r.t \in {"null", "undefined"}

IndexOf(r) == IF r.t = "object" THEN r.index ELSE JUndefined

\* typeof idx !== 'number' || idx < 0 || idx >= chunk.length
IndexRejected(idx, chunk) == idx.t # "number" \/ idx.n < 0 \/ idx.n >= Len(chunk)

\* mutant: the identifiers are taken from the first item of the chunk
MapEntry_FirstItem(r, chunk) ==
    [questionId |-> chunk[1].qId,
     subQuestionId |-> chunk[1].sqId,
     score |-> ToScore(r.score),
     reason |-> r.reason]

MapEntry(r, chunk) ==
    [questionId |-> chunk[IndexOf(r).n + 1].qId,
     subQuestionId |-> chunk[IndexOf(r).n + 1].sqId,
     score |-> ToScore(r.score),
     reason |-> r.reason]

\* chunkResults.map(...).filter(Boolean)
RECURSIVE MapFilter(_, _)
MapFilter(rs, chunk) ==
    IF rs = <<>> THEN <<>>
    ELSE IF IndexRejected(IndexOf(rs[1]), chunk) THEN MapFilter(Tail(rs), chunk)
    ELSE <<MapEntry(rs[1], chunk)>> \o MapFilter(Tail(rs), chunk)

\* mutant: the failure results are produced in reverse item order
Fallback_Reversed(chunk, msg) ==
    [k \in 1..Len(chunk) |->
        [questionId |-> chunk[Len(chunk) + 1 - k].qId,
         subQuestionId |-> chunk[Len(chunk) + 1 - k].sqId,
         score |-> 0, reason |-> "GradingSystemError: " \o msg]]

Fallback(chunk, msg) ==
    [k \in 1..Len(chunk) |->
        [questionId |-> chunk[k].qId, subQuestionId |-> chunk[k].sqId,
         score |-> 0, reason |-> "GradingSystemError: " \o msg]]

\* mutant: the mapped chunk is put in front of the earlier results
AppendMapped_Prepend(all, mapped) == mapped \o all

\* allResults = allResults.concat(mappedChunk)
AppendMapped(all, mapped) == all \o mapped

\* mutant: the catch block assigns the fallback instead of concatenating it
CatchChunkError_Overwrite(all, chunk, msg) == Fallback(chunk, msg)

\* the catch block: allResults = allResults.concat(fallback)
CatchChunkError(all, chunk, msg) == all \o Fallback(chunk, msg)

\* the body of the try block after _callGeminiApi produced `step`
Settle(all, chunk, step) ==
    IF step.kind = "throw"
    THEN [results |-> CatchChunkError(all, chunk, step.message),
          outcome |-> [kind |-> "failed", message |-> step.message, count |-> Len(chunk)]]
    ELSE IF \E k \in 1..Len(ChunkResults(step.value)) : ReadThrows(ChunkResults(step.value)[k])
    THEN [results |-> CatchChunkError(all, chunk, "TypeError"),
          outcome |-> [kind |-> "failed", message |-> "TypeError", count |-> Len(chunk)]]
    ELSE [results |-> AppendMapped(all, MapFilter(ChunkResults(step.value), chunk)),
          outcome |-> [kind |-> "ok", message |-> "",
                       count |-> Len(MapFilter(ChunkResults(step.value), chunk))]]

(***************************************************************************)
(* submitAnswers: return values and sinks                                  *)
(***************************************************************************)
NotReturned == [success |-> FALSE, totalScore |-> 0, results |-> <<>>, message |-> "pending"]

Success(total, results) ==
    [success |-> TRUE, totalScore |-> total, results |-> results, message |-> ""]

Failure(msg) ==
    [success |-> FALSE, totalScore |-> 0, results |-> <<>>, message |-> msg]

\* mutant: the data row is written twice
AppendRow_Twice(sheet, row) == Append(Append(sheet, row), row)

\* sheet.appendRow([...])
AppendRow(sheet, row) == Append(sheet, row)

\* the endpoint of a single call is not scripted
NoStub == [call |-> 1, script |-> <<>>, pos |-> 1, results |-> <<>>, total |-> 0]

SessionIds == {"", "s1"}

\* a data row of the score table: ID | Timestamp | Name | Pattern | Score
ScoreRow(id, timestamp, name, pattern) ==
    [id |-> id, timestamp |-> timestamp, name |-> name, pattern |-> pattern,
     score |-> Str("")]

InitialScoreTable == <<ScoreRow("s1", 0, "Ann", "T1"), ScoreRow("s2", 0, "Bob", "")>>

\* the first row whose ID equals sessionId gets the score; 0 when none does
MatchingRow(table, sid) ==
    IF \E r \in 1..Len(table) : table[r].id = sid
    THEN CHOOSE r \in 1..Len(table) :
            table[r].id = sid /\ \A q \in 1..(r - 1) : table[q].id # sid
    ELSE 0

\* mutant: the score goes into the Score cell of every row
WriteScore_EveryRow(table, sid, score) ==
    [r \in 1..Len(table) |-> [table[r] EXCEPT !.score = Num(score)]]

WriteScore(table, sid, score) ==
    IF MatchingRow(table, sid) = 0 THEN table
    ELSE [table EXCEPT ![MatchingRow(table, sid)].score = Num(score)]

(***************************************************************************)
(* State machine                                                           *)
(***************************************************************************)
(***************************************************************************)
(* saveQuestions: publishing a question list                               *)
(***************************************************************************)
Titles == {"T1", "T2"}

\* the patternTitle argument: left out, null, empty, or a title
PatternTitleArgs == {Undefined, Null, ""} \cup Titles

NoRequest ==
    [op |-> "none", patternTitle |-> Undefined, fails |-> "none",
     name |-> "", questions |-> <<>>]

\* no Patterns sheet yet
NoPatterns == [exists |-> FALSE, rows |-> <<>>]

\* if (patternTitle) setProperty; else if (patternTitle === '') deleteProperty
StoredTitle(stored, patternTitle) ==
    IF patternTitle \notin {Undefined, Null, ""} THEN patternTitle
    ELSE IF patternTitle = "" THEN Null
    ELSE stored

\* where the call can throw: nowhere, at openById, at sheet.clear(), at setValues
SaveFailures == {"none", "open", "clear", "write"}

\* getDeployedPatternTitle(): getProperty('CURRENT_PATTERN_TITLE') || ''
GetDeployedPatternTitle(stored) == IF stored = Null THEN "" ELSE stored

SaveResult(ok) ==
    [success |-> ok, totalScore |-> 0, results |-> <<>>,
     message |-> IF ok THEN "saved" ELSE "SaveError"]

\* nothing of the call has run yet
InitCall ==
    /\ pc = "idle"
    /\ problemList = <<>>
    /\ i = 0
    /\ chunks = <<>>
    /\ prompt = NoPrompt
    /\ retryCount = 0
    /\ fetchCount = 0
    /\ inflight = {}
    /\ requested = {}
    /\ response = NoResponse
    /\ sleeps = <<>>
    /\ allResults = <<>>
    /\ outcomes = <<>>
    /\ totalScore = 0
    /\ scoreTable = InitialScoreTable
    /\ responseLog = <<>>
    /\ returned = NotReturned
    /\ stub = NoStub
    /\ request = NoRequest
    /\ patterns = NoPatterns
    /\ now = 0
    /\ currentPatternTitle = Null

Init ==
    /\ \E shape \in Shapes : questions = Bank(shape)
    /\ answers = AnswerSheet(questions)
    /\ sessionId \in SessionIds
    /\ apiKey \in BOOLEAN
    /\ InitCall

\* _gradeWithGemini without GEMINI_API_KEY: the mock path
MockGrading ==
    /\ pc = "idle"
    /\ ~apiKey
    /\ allResults' = MockGrade(questions)
    /\ pc' = "graded"
    /\ UNCHANGED <<questions, answers, sessionId, apiKey, stub, request, patterns, now,
                   currentPatternTitle, chunks, problemList, i, prompt,
                   retryCount, fetchCount, inflight, requested, response, sleeps,
                   outcomes, totalScore, scoreTable, responseLog, returned>>

\* _gradeWithGemini with a key: flattening, and the early return on no items
FlattenItems ==
    /\ pc = "idle"
    /\ apiKey
    /\ problemList' = Flatten(questions, answers)
    /\ i' = 0
    /\ pc' = LoopEntry(problemList')
    /\ UNCHANGED <<questions, answers, sessionId, apiKey, stub, request, patterns, now,
                   currentPatternTitle, chunks, prompt,
                   retryCount, fetchCount, inflight, requested, response, sleeps,
                   allResults, outcomes, totalScore, scoreTable, responseLog, returned>>

\* top of one loop iteration: slice, build the prompt, sleep 1 s from the
\* second chunk on, enter _callGeminiApi
ChunkStart ==
    /\ pc = "chunk"
    /\ chunks' = Append(chunks, ChunkSlice(problemList, i))
    /\ prompt' = BuildPrompt(ChunkSlice(problemList, i), i)
    /\ sleeps' = IF i > 0 THEN <<1000>> ELSE <<>>
    /\ retryCount' = 0
    /\ fetchCount' = 0
    /\ response' = NoResponse
    /\ pc' = "fetch"
    /\ UNCHANGED <<questions, answers, sessionId, apiKey, stub, request, patterns, now,
                   currentPatternTitle,
                   problemList, i,
                   inflight, requested, allResults, outcomes, totalScore,
                   scoreTable, responseLog, returned>>

\* UrlFetchApp.fetch(url, options): the request leaves
FetchIssue ==
    /\ pc = "fetch"
    /\ inflight' = inflight \cup {prompt}
    /\ requested' = requested \cup {prompt.chunkNo}
    /\ fetchCount' = fetchCount + 1
    /\ pc' = "waiting"
    /\ UNCHANGED <<questions, answers, sessionId, apiKey, stub, request, patterns, now,
                   currentPatternTitle, chunks, problemList, i, prompt,
                   retryCount, response, sleeps, allResults, outcomes, totalScore,
                   scoreTable, responseLog, returned>>

\* UrlFetchApp.fetch returns or throws with outcome o; the rest of the loop
\* body up to the next sleep, the next iteration or the return of
\* _gradeWithGemini
Receive(o) ==
    /\ pc = "waiting"
    /\ \E req \in inflight :
        LET step == CallStep(o, retryCount)
            settled == Settle(allResults, ChunkSlice(problemList, i), step)
        IN  /\ inflight' = inflight \ {req}
            /\ response' = [req |-> req.chunkNo, kind |-> o.kind,
                            code |-> o.code, body |-> o.body]
            /\ IF step.kind = "retry"
               THEN /\ retryCount' = CountRetry(retryCount, o)
                    /\ pc' = "backoff"
                    /\ UNCHANGED <<i, allResults, outcomes>>
               ELSE /\ allResults' = settled.results
                    /\ outcomes' = Append(outcomes, settled.outcome)
                    /\ i' = i + CHUNK_SIZE
                    /\ pc' = IF i' < Len(problemList) THEN "chunk" ELSE "graded"
                    /\ UNCHANGED retryCount
    /\ UNCHANGED <<questions, answers, sessionId, apiKey, request, patterns, now,
                   currentPatternTitle, chunks,
                   problemList, prompt, fetchCount, requested, sleeps, totalScore,
                   scoreTable, responseLog, returned>>

\* the endpoint answers the fetch in any of the ways it can
FetchReturn ==
    /\ \E o \in FetchOutcomes : Receive(o)
    /\ UNCHANGED stub

\* mutant: the retry bookkeeping starts afresh after every backoff
Backoff_Restart ==
    /\ pc = "backoff"
    /\ retryCount' = 0
    /\ fetchCount' = 0
    /\ sleeps' = IF i > 0 THEN <<1000>> ELSE <<>>
    /\ pc' = "fetch"
    /\ UNCHANGED <<questions, answers, sessionId, apiKey, stub, request, patterns, now,
                   currentPatternTitle, chunks, problemList, i, prompt,
                   inflight, requested, response, allResults, outcomes,
                   totalScore, scoreTable, responseLog, returned>>

\* Utilities.sleep(Math.pow(2, retryCount) * 1000); continue
Backoff ==
    /\ pc = "backoff"
    /\ sleeps' = Append(sleeps, BackoffMs(retryCount))
    /\ pc' = "fetch"
    /\ UNCHANGED <<questions, answers, sessionId, apiKey, stub, request, patterns, now,
                   currentPatternTitle, chunks, problemList, i, prompt,
                   retryCount, fetchCount, inflight, requested, response,
                   allResults, outcomes, totalScore, scoreTable, responseLog,
                   returned>>

\* _gradeWithGemini has returned: gradingResults.reduce(...)
ComputeTotal ==
    /\ pc = "graded"
    /\ totalScore' = SumScores(allResults)
    /\ prompt' = NoPrompt
    /\ response' = NoResponse
    /\ retryCount' = 0
    /\ fetchCount' = 0
    /\ sleeps' = <<>>
    /\ pc' = "score"
    /\ UNCHANGED <<questions, answers, sessionId, apiKey, stub, request, patterns, now,
                   currentPatternTitle, chunks, problemList, i,
                   inflight, requested, allResults, outcomes, scoreTable,
                   responseLog, returned>>

\* if (sessionId) _updateScoreTable(sessionId, totalScore): any exception
\* inside is caught and logged there
UpdateScoreTable ==
    /\ pc = "score"
    /\ \E ok \in BOOLEAN :
        scoreTable' = IF sessionId # "" /\ ok
                      THEN WriteScore(scoreTable, sessionId, totalScore)
                      ELSE scoreTable
    /\ pc' = "log"
    /\ UNCHANGED <<questions, answers, sessionId, apiKey, stub, request, patterns, now,
                   currentPatternTitle, chunks, problemList, i, prompt,
                   retryCount, fetchCount, inflight, requested, response, sleeps,
                   allResults, outcomes, totalScore, responseLog, returned>>

\* _saveResponseLog(...) and the return; an exception thrown by the log write
\* reaches the catch of submitAnswers
SaveResponseLog ==
    /\ pc = "log"
    /\ \E ok \in BOOLEAN :
        IF ok
        THEN /\ responseLog' = AppendRow(responseLog,
                    [totalScore |-> totalScore, sessionId |-> sessionId,
                     grading |-> allResults])
             /\ returned' = Success(totalScore, allResults)
        ELSE /\ responseLog' = responseLog
             /\ returned' = Failure("SubmitError: response log write failed")
    /\ pc' = "done"
    /\ UNCHANGED <<questions, answers, sessionId, apiKey, stub, request, patterns, now,
                   currentPatternTitle, chunks, problemList, i, prompt,
                   retryCount, fetchCount, inflight, requested, response, sleeps,
                   allResults, outcomes, totalScore, scoreTable>>

Next ==
    \/ MockGrading
    \/ FlattenItems
    \/ ChunkStart
    \/ FetchIssue
    \/ FetchReturn
    \/ Backoff
    \/ ComputeTotal
    \/ UpdateScoreTable
    \/ SaveResponseLog

Spec == Init /\ [][Next]_vars

(***************************************************************************)
(* The same submitAnswers call made twice against a scripted endpoint: the *)
(* first call records what the endpoint did at each fetch, the second call  *)
(* gets the same outcomes in the same order.                                *)
(***************************************************************************)
\* what the scripted endpoint can do at a fetch
StubOutcomes ==
    {[kind |-> "exception", code |-> 0, body |-> NoBody],
     [kind |-> "http", code |-> 503, body |-> NoBody],
     [kind |-> "http", code |-> 400, body |-> NoBody],
     [kind |-> "http", code |-> 200,
      body |-> Text(Array(<<Entry(Num(0), Num(10))>>), FALSE, "none")]}

\* mutant: the result list of the earlier call is still there
FreshResults_Keep(old) == old

\* let allResults = [] at the start of a call
FreshResults(old) == <<>>

RecordFetchReturn ==
    /\ stub.call = 1
    /\ \E o \in StubOutcomes :
        /\ Receive(o)
        /\ stub' = [stub EXCEPT !.script = Append(@, o)]

ReplayFetchReturn ==
    /\ stub.call = 2
    /\ stub.pos <= Len(stub.script)
    /\ Receive(stub.script[stub.pos])
    /\ stub' = [stub EXCEPT !.pos = @ + 1]

\* the caller submits the same answers again: every local of the call is
\* new, the sheets and the script properties stay as the first call left them
SecondCall ==
    /\ pc = "done"
    /\ stub.call = 1
    /\ stub' = [stub EXCEPT !.call = 2, !.results = allResults, !.total = totalScore]
    /\ pc' = "idle"
    /\ problemList' = <<>>
    /\ i' = 0
    /\ chunks' = <<>>
    /\ prompt' = NoPrompt
    /\ retryCount' = 0
    /\ fetchCount' = 0
    /\ inflight' = {}
    /\ requested' = {}
    /\ response' = NoResponse
    /\ sleeps' = <<>>
    /\ allResults' = FreshResults(allResults)
    /\ outcomes' = <<>>
    /\ totalScore' = 0
    /\ returned' = NotReturned
    /\ UNCHANGED <<questions, answers, sessionId, apiKey, request, patterns, now,
                   currentPatternTitle, scoreTable, responseLog>>

ReplayNext ==
    \/ MockGrading
    \/ FlattenItems
    \/ ChunkStart
    \/ FetchIssue
    \/ RecordFetchReturn
    \/ ReplayFetchReturn
    \/ Backoff
    \/ ComputeTotal
    \/ UpdateScoreTable
    \/ SaveResponseLog
    \/ SecondCall

ReplaySpec == Init /\ [][ReplayNext]_vars

(***************************************************************************)
(* Administration of the sheet, between submissions                        *)
(***************************************************************************)
\* saveQuestions(qs, patternTitle); opening the spreadsheet can throw before
\* anything is written, clearing the sheet can throw after the property
\* was updated, and writing the rows can throw after the sheet was cleared
SaveQuestions ==
    /\ pc = "idle"
    /\ \E shape \in Shapes, pt \in PatternTitleArgs, fails \in SaveFailures :
        /\ request' = [op |-> "saveQuestions", patternTitle |-> pt, fails |-> fails,
                        name |-> "", questions |-> Bank(shape)]
        /\ currentPatternTitle' =
                IF fails = "open" THEN currentPatternTitle
                ELSE StoredTitle(currentPatternTitle, pt)
        /\ questions' = CASE fails = "none" -> Bank(shape)
                          [] fails = "write" -> <<>>
                          [] OTHER -> questions
        /\ returned' = SaveResult(fails = "none")
    /\ UNCHANGED <<answers, sessionId, apiKey, stub, patterns, now, pc, problemList,
                   i, chunks, prompt, retryCount, fetchCount, inflight, requested, response,
                   sleeps, allResults, outcomes, totalScore, scoreTable, responseLog>>

AdminSpec == Init /\ [][SaveQuestions]_vars

(***************************************************************************)
(* savePattern, getPattern, deletePattern: the Patterns sheet              *)
(***************************************************************************)
\* the question lists an administrator saves as patterns
PatternBanks == {Bank(shape) : shape \in {sh \in Shapes : Len(sh) <= 1}}

\* JSON.stringify(questions), and JSON.parse of the stored cell
Stringify(qs) == [json |-> qs]

ParseStored(cell) == cell.json

\* mutant: the search starts at the second data row
FindRow_FromSecond(rows, title) ==
    IF \E k \in 2..Len(rows) : rows[k].title = title
    THEN CHOOSE k \in 2..Len(rows) :
            rows[k].title = title /\ \A j \in 2..(k - 1) : rows[j].title # title
    ELSE 0

\* for (i = 1; i < data.length; i++) if (String(data[i][0]) === String(title)):
\* the first data row with that title, 0 when there is none
FindRow(rows, title) ==
    IF \E k \in 1..Len(rows) : rows[k].title = title
    THEN CHOOSE k \in 1..Len(rows) :
            rows[k].title = title /\ \A j \in 1..(k - 1) : rows[j].title # title
    ELSE 0

\* sheet.deleteRow(i + 1)
DeleteRow(rows, k) == [j \in 1..(Len(rows) - 1) |-> IF j < k THEN rows[j] ELSE rows[j + 1]]

\* getPattern(title)
GetPattern(sheet, title) ==
    IF sheet.exists /\ FindRow(sheet.rows, title) > 0
    THEN [success |-> TRUE,
          questions |-> ParseStored(sheet.rows[FindRow(sheet.rows, title)].questions)]
    ELSE [success |-> FALSE, questions |-> <<>>]

\* where savePattern can throw: nowhere, at openById, at the first write
\* (setValue of the questions or appendRow), at setValue of the timestamp
PatternFailures == {"none", "open", "write", "stamp"}

\* savePattern(title, questions) at time t: the sheet it leaves, and its result
SavePatternResult(sheet, title, qs, t, fails) ==
    LET k == FindRow(sheet.rows, title)
    IN  IF title \in {Undefined, Null, ""}
        THEN [sheet |-> sheet, returned |-> Failure("SaveError: empty title")]
        ELSE IF fails = "open"
        THEN [sheet |-> sheet, returned |-> Failure("SaveError")]
        ELSE IF fails = "write"
        THEN [sheet |-> [sheet EXCEPT !.exists = TRUE], returned |-> Failure("SaveError")]
        ELSE IF k > 0 /\ fails = "stamp"
        THEN [sheet |-> [sheet EXCEPT !.rows[k].questions = Stringify(qs)],
              returned |-> Failure("SaveError")]
        ELSE IF k > 0
        THEN [sheet |-> [sheet EXCEPT !.rows[k].questions = Stringify(qs),
                                      !.rows[k].updatedAt = t],
              returned |-> Success(0, <<>>)]
        ELSE [sheet |-> [exists |-> TRUE,
                         rows |-> Append(sheet.rows,
                                    [title |-> title, questions |-> Stringify(qs),
                                     updatedAt |-> t])],
              returned |-> Success(0, <<>>)]

SavePattern ==
    /\ pc = "idle"
    /\ now < MaxClock
    /\ \E title \in PatternTitleArgs, qs \in PatternBanks, fails \in PatternFailures :
        LET r == SavePatternResult(patterns, title, qs, now + 1, fails)
        IN  /\ request' = [op |-> "savePattern", patternTitle |-> title,
                           fails |-> fails, name |-> "", questions |-> qs]
            /\ patterns' = r.sheet
            /\ returned' = r.returned
    /\ now' = now + 1
    /\ UNCHANGED <<questions, answers, sessionId, apiKey, stub, currentPatternTitle,
                   pc, problemList, i, chunks, prompt, retryCount, fetchCount,
                   inflight, requested, response, sleeps, allResults, outcomes,
                   totalScore, scoreTable, responseLog>>

\* deletePattern(title): the sheet it leaves, and its result
DeletePatternResult(sheet, title, fails) ==
    LET k == FindRow(sheet.rows, title)
    IN  IF fails = "open" THEN [sheet |-> sheet, returned |-> Failure("DeleteError")]
        ELSE IF ~sheet.exists
        THEN [sheet |-> sheet, returned |-> Failure("DeleteError: Pattern sheet not found")]
        ELSE IF k = 0 THEN [sheet |-> sheet, returned |-> Failure("pattern not found")]
        ELSE IF fails = "write" THEN [sheet |-> sheet, returned |-> Failure("DeleteError")]
        ELSE [sheet |-> [sheet EXCEPT !.rows = DeleteRow(sheet.rows, k)],
              returned |-> Success(0, <<>>)]

DeletePattern ==
    /\ pc = "idle"
    /\ \E title \in PatternTitleArgs, fails \in {"none", "open", "write"} :
        LET r == DeletePatternResult(patterns, title, fails)
        IN  /\ request' = [op |-> "deletePattern", patternTitle |-> title,
                           fails |-> fails, name |-> "", questions |-> <<>>]
            /\ patterns' = r.sheet
            /\ returned' = r.returned
    /\ UNCHANGED <<questions, answers, sessionId, apiKey, stub, now,
                   currentPatternTitle, pc, problemList, i, chunks, prompt,
                   retryCount, fetchCount, inflight, requested, response, sleeps,
                   allResults, outcomes, totalScore, scoreTable, responseLog>>

\* the calls are made one after another by the administrator; no submission
\* is in progress
PatternInit ==
    /\ questions = <<>>
    /\ answers = AnswerSheet(questions)
    /\ sessionId = ""
    /\ apiKey = FALSE
    /\ InitCall

PatternNext == SavePattern \/ DeletePattern

PatternSpec == PatternInit /\ [][PatternNext]_vars

(***************************************************************************)
(* registerCandidate and the score table                                   *)
(***************************************************************************)
\* the name argument: left out, empty, or a name
Names == {Undefined, "", "Cy"}

\* what Utilities.getUuid() can return
Uuids == {"u1", "u2"}

\* registerCandidate rethrows what it caught
Thrown(msg) == Failure("throws " \o msg)

\* the session id is the value returned
Registered(id) == [success |-> TRUE, totalScore |-> 0, results |-> <<>>, message |-> id]

\* registerCandidate(name, patternTitle) at time t with the UUID drawn: the
\* table it leaves, and what it returns or throws
RegisterResult(table, name, patternTitle, id, t, fails) ==
    IF name \in {Undefined, Null, ""}
    THEN [table |-> table, returned |-> Thrown("Error: name is empty")]
    ELSE IF fails # "none"
    THEN [table |-> table, returned |-> Thrown("Exception")]
    ELSE [table |-> AppendRow(table,
                        ScoreRow(id, t, name,
                                 IF patternTitle \in {Undefined, Null} THEN ""
                                 ELSE patternTitle)),
          returned |-> Registered(id)]

RegisterCandidate ==
    /\ pc = "idle"
    /\ now < MaxClock
    /\ \E name \in Names, pt \in {Undefined, "T1"}, fails \in {"none", "open", "write"},
          id \in Uuids \ {scoreTable[r].id : r \in 1..Len(scoreTable)} :
        LET r == RegisterResult(scoreTable, name, pt, id, now + 1, fails)
        IN  /\ request' = [op |-> "registerCandidate", patternTitle |-> pt,
                           fails |-> fails, name |-> name, questions |-> <<>>]
            /\ scoreTable' = r.table
            /\ returned' = r.returned
    /\ now' = now + 1
    /\ UNCHANGED <<questions, answers, sessionId, apiKey, stub, patterns,
                   currentPatternTitle, pc, problemList, i, chunks, prompt,
                   retryCount, fetchCount, inflight, requested, response, sleeps,
                   allResults, outcomes, totalScore, responseLog>>

\* session ids a caller can submit with: none, one of a row, one of no row,
\* one that registerCandidate hands out
SubmittedIds == {"", "s1", "s2", "s9", "u1"}

\* candidates register, then one submission is graded without an API key
ScoreInit ==
    /\ \E shape \in Shapes : questions = Bank(shape)
    /\ answers = AnswerSheet(questions)
    /\ sessionId \in SubmittedIds
    /\ apiKey = FALSE
    /\ InitCall

ScoreNext ==
    \/ RegisterCandidate
    \/ MockGrading
    \/ ComputeTotal
    \/ UpdateScoreTable
    \/ SaveResponseLog

ScoreSpec == ScoreInit /\ [][ScoreNext]_vars

(***************************************************************************)
(* Flattening on its own, for every answer mapping                         *)
(***************************************************************************)
FlattenInit ==
    /\ \E shape \in Shapes : questions = Bank(shape)
    /\ answers \in AnswerMaps(questions)
    /\ sessionId \in SessionIds
    /\ apiKey \in BOOLEAN
    /\ InitCall

FlattenSpec == FlattenInit /\ [][FlattenItems]_vars

\* The call runs on one thread and every statement is blocking: as long as
\* each fetch and each sleep returns or throws, the next step is taken.
FairSpec == Spec /\ WF_vars(Next)

(***************************************************************************)
(* Vocabulary of the properties                                            *)
(***************************************************************************)
Completed == 1..Len(outcomes)

NumChunks == (Len(problemList) + CHUNK_SIZE - 1) \div CHUNK_SIZE

\* flattened positions that belong to chunk c
PositionsOf(c) == {p \in 1..Len(problemList) : (p - 1) \div CHUNK_SIZE + 1 = c}

RECURSIVE CountUpTo(_)
CountUpTo(c) == IF c = 0 THEN 0 ELSE outcomes[c].count + CountUpTo(c - 1)

\* positions in allResults of the results chunk c contributed
SegmentOf(c) == (CountUpTo(c - 1) + 1)..CountUpTo(c)

\* flattened positions the result r names
PositionsNamed(r) ==
    {p \in 1..Len(problemList) :
        problemList[p].qId = r.questionId /\ problemList[p].sqId = r.subQuestionId}

Graded == pc \in {"graded", "score", "log", "done"}

\* the request of the chunk completed last has just ended
JustSettled == pc \in {"chunk", "graded"} /\ Len(outcomes) > 0 /\ response # NoResponse

\* reason strings that come out of a response of the model
ModelReasons ==
    {""} \cup {ReadReason(e) : e \in {"none", "newline", "quote", "dnewline", "dinvalid"}}

IsSystemError(r) == r.score = 0 /\ r.reason \notin ModelReasons

RetryableOutcome(resp) ==
    \/ resp.kind = "exception"
    \/ resp.kind = "http" /\ (resp.code = 429 \/ resp.code \in 500..599)

\* chunk number the entries of `sleeps` belong to, and how many of them are
\* backoff sleeps (the first one is the 1 s pause before a later chunk)
SleepChunk == IF JustSettled THEN Len(outcomes) ELSE ChunkNo(i)

BackoffSleeps == Len(sleeps) - (IF SleepChunk > 1 THEN 1 ELSE 0)

(***************************************************************************)
(* Properties                                                              *)
(***************************************************************************)

\* C1 (completeness): every completed chunk contributes exactly one result
\* per item of the chunk, so once grading has returned the result list is
\* as long as the flattened item list.
C1_Completeness ==
    apiKey =>
        /\ \A c \in Completed : outcomes[c].count = Cardinality(PositionsOf(c))
        /\ Graded => Len(allResults) = Len(problemList)

\* C2 (no duplication): no flattened item (questionId, subQuestionId) is
\* named by more than one result of the returned list.
C2_NoDuplication ==
    \A a, b \in 1..Len(allResults) :
        a # b => <<allResults[a].questionId, allResults[a].subQuestionId>>
                    # <<allResults[b].questionId, allResults[b].subQuestionId>>

\* items of chunk c, by flattened position
ItemsOf(c) ==
    [k \in 1..Cardinality(PositionsOf(c)) |-> problemList[(c - 1) * CHUNK_SIZE + k]]

\* the request of a chunk ended in failure
RequestFailed(resp) ==
    \/ resp.kind = "exception"
    \/ resp.kind = "http" /\ resp.code # 200
    \/ resp.kind = "http" /\ resp.code = 200 /\ resp.body.kind # "json"

\* a step that settles the chunk numbered Len(outcomes')
ChunkSettles == Len(outcomes') = Len(outcomes) + 1

ContainedSettle ==
    LET c == Len(outcomes')
        n == Cardinality(PositionsOf(c))
        added == SubSeq(allResults', Len(allResults) + 1, Len(allResults'))
    IN  /\ SubSeq(outcomes', 1, Len(outcomes)) = outcomes
        /\ Len(allResults') = Len(allResults) + outcomes'[c].count
        /\ SubSeq(allResults', 1, Len(allResults)) = allResults
        /\ RequestFailed(response') => outcomes'[c].kind = "failed"
        /\ IF outcomes'[c].kind = "failed"
           THEN /\ Len(added) = n
                /\ \A k \in 1..n :
                    /\ added[k].questionId = ItemsOf(c)[k].qId
                    /\ added[k].subQuestionId = ItemsOf(c)[k].sqId
                    /\ IsSystemError(added[k])
           ELSE /\ added = MapFilter(ChunkResults(Extract(response'.body).value), ItemsOf(c))
                /\ \A k \in 1..Len(added) : ~IsSystemError(added[k])
        /\ i' = i + CHUNK_SIZE
        /\ pc' = IF c < NumChunks THEN "chunk" ELSE "graded"

\* C3 (failure containment): a chunk whose request fails does not abort the
\* call: the step that settles it leaves the results of the earlier chunks
\* untouched, appends one zero-scored failure result per item of that chunk
\* only, and goes on to the next chunk; a chunk whose request succeeds gets
\* the results its own response maps to; every chunk is settled before
\* _gradeWithGemini returns.
C3_FailureContainment ==
    [][/\ ChunkSettles => ContainedSettle
       /\ (apiKey /\ Graded') => Len(outcomes') = NumChunks']_vars

C3_Witness ==
    /\ Len(outcomes) = 2
    /\ outcomes[1].kind = "ok" /\ outcomes[1].count = 2
    /\ outcomes[2].kind = "failed"
    /\ response.kind = "http" /\ response.code = 500
    /\ allResults[1].score = 10
    /\ pc = "graded"

\* C4 (retry classification): a further fetch or a backoff sleep follows only
\* a transport exception, a 429 or a 5xx; any other non-200 status ends the
\* request at once as a failure, the fetch that received it being the only
\* one since the last retryable outcome, with no backoff sleep after it.
C4_RetryClassification ==
    /\ (pc = "backoff" \/ (pc = "fetch" /\ fetchCount > 0)
            \/ (pc = "waiting" /\ fetchCount > 1))
          => RetryableOutcome(response)
    /\ (response.kind = "http" /\ response.code # 200 /\ ~RetryableOutcome(response))
          => /\ JustSettled
             /\ outcomes[Len(outcomes)].kind = "failed"
             /\ fetchCount = retryCount + 1
             /\ BackoffSleeps = retryCount

C4_Witness ==
    /\ JustSettled
    /\ response.kind = "http" /\ response.code = 403
    /\ retryCount = 2
    /\ outcomes[Len(outcomes)].kind = "failed"

\* C5 as written (attempt cap 3): no request is fetched more than 3 times,
\* and a third retryable answer ends the request.
C5_AttemptCapThree ==
    /\ fetchCount <= 3
    /\ ~(pc = "backoff" /\ fetchCount = 3)

\* C5 as amended (attempt cap MAX_RETRIES + 1 = 4): no request is fetched
\* more than 4 times; a request that is answered 429/5xx or throws on its
\* 4th fetch ends as a failure whose chunk's items all score 0, and no
\* backoff or further fetch follows a 4th fetch.
C5_AttemptCapFour ==
    /\ fetchCount <= MAX_RETRIES + 1
    /\ fetchCount = MAX_RETRIES + 1 => pc \in {"waiting", "chunk", "graded"}
    /\ (JustSettled /\ RetryableOutcome(response))
          => /\ fetchCount = MAX_RETRIES + 1
             /\ outcomes[Len(outcomes)].kind = "failed"
             /\ \A k \in SegmentOf(Len(outcomes)) : allResults[k].score = 0
             /\ Cardinality(SegmentOf(Len(outcomes)))
                    = Cardinality(PositionsOf(Len(outcomes)))

C5_Witness ==
    /\ JustSettled
    /\ response.kind = "http" /\ response.code = 500
    /\ fetchCount = 4
    /\ outcomes[Len(outcomes)].kind = "failed"

\* C6 (concurrent fan-out): with two or more chunks the requests go out as
\* one batch, so whenever chunk c has been settled the request of chunk c+1
\* has already been issued.
C6_ConcurrentFanOut ==
    \A c \in Completed : c < NumChunks => (c + 1) \in requested

\* What the code does instead: a request is issued only after every earlier
\* chunk has been settled, and at most one request is in flight.
SerialDispatch ==
    /\ Cardinality(inflight) <= 1
    /\ \A c \in requested : \A b \in 1..(c - 1) : b \in Completed
    /\ \A r \in inflight : r.chunkNo = Len(outcomes) + 1

\* C7 (positional alignment): the request in flight is the one built from
\* the current chunk, the outcome that settles chunk c is the outcome of
\* the request built from chunk c, every result chunk c contributed names
\* an item of chunk c, and along the result list the chunk numbers of the
\* items named never decrease.
C7_PositionalAlignment ==
    /\ \A r \in inflight :
        /\ r.chunkNo = ChunkNo(i)
        /\ r.entries = [k \in 1..Len(ItemsOf(r.chunkNo)) |->
                            PromptEntry(ItemsOf(r.chunkNo)[k])]
    /\ JustSettled => response.req = Len(outcomes)
    /\ apiKey => CountUpTo(Len(outcomes)) = Len(allResults)
    /\ \A c \in Completed : \A k \in SegmentOf(c) :
        /\ PositionsNamed(allResults[k]) # {}
        /\ PositionsNamed(allResults[k]) \subseteq PositionsOf(c)
    /\ \A b \in 2..Len(allResults) :
        \A pa \in PositionsNamed(allResults[b - 1]),
           pb \in PositionsNamed(allResults[b]) :
            (pa - 1) \div CHUNK_SIZE <= (pb - 1) \div CHUNK_SIZE

C7_Witness ==
    /\ pc = "graded"
    /\ Len(outcomes) = 2
    /\ outcomes[1].kind = "ok" /\ outcomes[1].count = 2
    /\ outcomes[2].kind = "ok" /\ outcomes[2].count = 1
    /\ retryCount = 1

\* flattened items of the sheet: (question id, sub-question id or Null, points)
ExpectedItems == Flatten(questions, answers)

\* C8 (mock mode): without GEMINI_API_KEY no request is ever issued, and the
\* list _gradeWithGemini returns has one result per flattened item, in
\* order, scored floor(points * 0.8) with a mock-mode reason.
C8_MockMode ==
    ~apiKey =>
        /\ requested = {} /\ inflight = {} /\ fetchCount = 0
        /\ pc \notin {"chunk", "fetch", "waiting", "backoff"}
        /\ Graded =>
            /\ Len(allResults) = Len(ExpectedItems)
            /\ \A k \in 1..Len(allResults) :
                /\ allResults[k].questionId = ExpectedItems[k].qId
                /\ allResults[k].subQuestionId =
                        (IF ExpectedItems[k].sqId = Null THEN Undefined
                         ELSE ExpectedItems[k].sqId)
                /\ 10 * allResults[k].score <= 8 * ExpectedItems[k].points
                /\ 8 * ExpectedItems[k].points < 10 * (allResults[k].score + 1)
                /\ allResults[k].reason
                        \in {"(Mock) Graded.", "(Mock) Sub-question graded."}

C8_Witness ==
    /\ ~apiKey
    /\ pc = "done"
    /\ Len(allResults) = 4
    /\ allResults[1].score = 8
    /\ allResults[2].score = 2

\* C9 (sink independence): whatever happens to the score-table write and
\* the response-log write, submitAnswers returns success with the total
\* score and the result list of the grading.
C9_SinkIndependence ==
    pc = "done" =>
        /\ returned.success
        /\ returned.totalScore = SumScores(allResults)
        /\ returned.results = allResults

\* points of the item a result names
PointsNamed(r) ==
    LET q == CHOOSE x \in {questions[k] : k \in 1..Len(questions)} : x.id = r.questionId
    IN  IF r.subQuestionId \in {Null, Undefined} THEN q.points
        ELSE (CHOOSE sq \in {q.subQuestions[j] : j \in 1..Len(q.subQuestions)} :
                sq.id = r.subQuestionId).points

\* C10 (score range): every result carries a score between 0 and the points
\* of the item it names.
C10_ScoreRange ==
    \A k \in 1..Len(allResults) :
        /\ 0 <= allResults[k].score
        /\ allResults[k].score <= PointsNamed(allResults[k])

\* number of items a question flattens to: one, or one per sub-question
ItemCount(q) == IF Len(q.subQuestions) = 0 THEN 1 ELSE Len(q.subQuestions)

\* number of items the questions before the k-th one flatten to
RECURSIVE ItemsBefore(_)
ItemsBefore(k) ==
    IF k = 1 THEN 0 ELSE ItemCount(questions[k - 1]) + ItemsBefore(k - 1)

Flattened == apiKey /\ pc # "idle"

\* C11 (flattening): the flattened list is as long as the sum over the
\* questions of (1 if no sub-questions, else their number); the items of the
\* k-th question follow those of the questions before it; a question
\* without sub-questions gives one item naming the question, a question with
\* sub-questions gives one item per sub-question in their order and none
\* for the parent.
C11_Flattening ==
    Flattened =>
        /\ Len(problemList) = ItemsBefore(Len(questions) + 1)
        /\ \A k \in 1..Len(questions) :
            LET q == questions[k]
                base == ItemsBefore(k)
            IN  IF Len(q.subQuestions) = 0
                THEN /\ problemList[base + 1].type = "normal"
                     /\ problemList[base + 1].qId = q.id
                     /\ problemList[base + 1].sqId = Null
                     /\ problemList[base + 1].points = q.points
                ELSE \A j \in 1..Len(q.subQuestions) :
                     /\ problemList[base + j].type = "sub"
                     /\ problemList[base + j].qId = q.id
                     /\ problemList[base + j].sqId = q.subQuestions[j].id
                     /\ problemList[base + j].points = q.subQuestions[j].points

C11_Witness ==
    /\ Flattened
    /\ Len(questions) = 2
    /\ Len(problemList) = 4
    /\ problemList[1].type = "normal"
    /\ problemList[2].type = "sub" /\ problemList[4].sqId = "c"

\* C12 (partitioning): every chunk holds between 1 and CHUNK_SIZE items, the
\* chunks formed so far concatenate to a prefix of the flattened list, and
\* when the loop has ended there are ceil(L / CHUNK_SIZE) chunks, their
\* concatenation is the flattened list, and a request was issued for each.
C12_Partitioning ==
    /\ \A c \in 1..Len(chunks) : Len(chunks[c]) \in 1..CHUNK_SIZE
    /\ Len(Concat(chunks)) <= Len(problemList)
    /\ Concat(chunks) = SubSeq(problemList, 1, Len(Concat(chunks)))
    /\ (apiKey /\ Graded) =>
        /\ CHUNK_SIZE * Len(chunks) >= Len(problemList)
        /\ CHUNK_SIZE * (Len(chunks) - 1) < Len(problemList) \/ Len(chunks) = 0
        /\ Concat(chunks) = problemList
        /\ requested = 1..Len(chunks)

C12_Witness ==
    /\ apiKey /\ Graded
    /\ Len(problemList) = 6
    /\ Len(chunks) = 2
    /\ Len(chunks[1]) = 5 /\ Len(chunks[2]) = 1

\* C13 (empty input): when the flattened list is empty no chunk is formed,
\* no request is issued, no sleep is taken, and the grading returns the
\* empty result list, whose total is 0.
C13_EmptyInput ==
    (Flattened /\ Len(problemList) = 0) =>
        /\ chunks = <<>>
        /\ requested = {} /\ inflight = {} /\ fetchCount = 0
        /\ sleeps = <<>>
        /\ Graded
        /\ allResults = <<>> /\ totalScore = 0
        /\ returned.success => (returned.results = <<>> /\ returned.totalScore = 0)

C13_Witness ==
    /\ apiKey
    /\ pc = "done"
    /\ questions = <<>> /\ problemList = <<>>
    /\ returned.success /\ returned.results = <<>> /\ returned.totalScore = 0

\* C14 (termination): whatever the endpoint answers to each fetch, the retry
\* counter never passes MAX_RETRIES and the call eventually has its result
\* list, one outcome per chunk, and the total score computed from it.
C14_Termination ==
    /\ [](retryCount <= MAX_RETRIES)
    /\ <>(/\ pc \in {"score", "log", "done"}
          /\ apiKey => Len(outcomes) = NumChunks
          /\ totalScore = SumScores(allResults))

\* a call that went through a retry-exhausted chunk and a later chunk, and
\* has its total
C14_Witness ==
    /\ pc = "score"
    /\ Len(outcomes) = 2
    /\ outcomes[1].kind = "failed"
    /\ outcomes[1].message = "API Error (503) retry limit reached"
    /\ outcomes[2].kind = "ok" /\ outcomes[2].count = 1
    /\ totalScore = SumScores(allResults)

\* what the failure reason of a chunk must name, given how its request ended
FailureNames(resp) ==
    IF resp.kind = "exception" THEN {"Exception: fetch failed"}
    ELSE IF resp.code = 200 /\ resp.body.kind = "nocandidates"
    THEN {"No candidates returned."}
    ELSE IF resp.code = 200 THEN {"SyntaxError", "TypeError"}
    ELSE IF RetryableOutcome(resp)
    THEN {"API Error (" \o ToString(resp.code) \o ") retry limit reached"}
    ELSE {"API Error (" \o ToString(resp.code) \o ")"}

\* C15 (whole-group failure fill): a chunk whose request or extraction
\* failed contributes exactly one result per item of the chunk, in item
\* order, each with the item's questionId and subQuestionId, score 0 and a
\* reason made of the failure's message; that message names the way the
\* request just ended (transport error, status, retry exhaustion, parse).
C15_FailureFill ==
    /\ \A c \in Completed :
        outcomes[c].kind = "failed" =>
            /\ Cardinality(SegmentOf(c)) = Cardinality(PositionsOf(c))
            /\ \A k \in 1..Cardinality(PositionsOf(c)) :
                LET r == allResults[CountUpTo(c - 1) + k]
                    p == problemList[(c - 1) * CHUNK_SIZE + k]
                IN  /\ r.questionId = p.qId
                    /\ r.subQuestionId = p.sqId
                    /\ r.score = 0
                    /\ r.reason = "GradingSystemError: " \o outcomes[c].message
    /\ (JustSettled /\ RequestFailed(response)) =>
            /\ outcomes[Len(outcomes)].kind = "failed"
            /\ outcomes[Len(outcomes)].message \in FailureNames(response)

\* a four-item chunk whose response text could not be parsed
C15_Witness ==
    /\ JustSettled
    /\ Len(outcomes) = 1
    /\ Cardinality(PositionsOf(1)) = 4
    /\ response.code = 200 /\ response.body.kind = "unparseable"
    /\ Len(allResults) = 4
    /\ allResults[2].subQuestionId = "a"
    /\ allResults[4].reason = "GradingSystemError: SyntaxError"

\* the chunk completed last was answered HTTP 200 with a candidate text
SettledOnText ==
    /\ JustSettled
    /\ response.kind = "http" /\ response.code = 200
    /\ response.body.kind = "json"

\* the results the chunk completed last contributed
LastSegment == SubSeq(allResults, CountUpTo(Len(outcomes) - 1) + 1, Len(allResults))

\* C16 (non-array response): when the text of a chunk's response parses to a
\* value that is neither an array nor an object, the chunk gets a failure
\* outcome: one zero-scored result with a failure reason per item.
C16_NonArrayContentError ==
    (SettledOnText /\ Parses(response.body)
        /\ response.body.value.t \notin {"array", "object"}) =>
        /\ outcomes[Len(outcomes)].kind = "failed"
        /\ Len(LastSegment) = Cardinality(PositionsOf(Len(outcomes)))
        /\ \A k \in 1..Len(LastSegment) : IsSystemError(LastSegment[k])

\* C17 (unanswered item): a result that names an item whose student answer
\* is the empty string carries score 0.
C17_UnansweredZero ==
    apiKey =>
        \A k \in 1..Len(allResults) :
            \A p \in PositionsNamed(allResults[k]) :
                problemList[p].studentAnswer = StringAnswer("")
                    => allResults[k].score = 0

\* an entry the index check lets through, for a chunk of n items
ValidEntry(r, n) == r.t = "object" /\ r.index.t = "number" /\ r.index.n \in 0..(n - 1)

\* C18 (identity reconciliation): when a chunk's response text parses as it
\* is, the chunk contributes one result per entry whose index is a number
\* in 0..len(chunk)-1, in entry order, and nothing for any other entry; the
\* result of an entry with index k carries the questionId and subQuestionId
\* of the item at flattened position (c-1)*CHUNK_SIZE + k + 1 and, when the
\* entry's score is a number a double can hold, that score; the total is
\* the sum of the scores of the results.
C18_IdentityReconciliation ==
    /\ (SettledOnText /\ Parses(response.body)
            /\ outcomes[Len(outcomes)].kind = "ok") =>
        LET c == Len(outcomes)
            n == Cardinality(PositionsOf(c))
            out == response.body.value
            es == IF out.t = "array" THEN out.elems ELSE <<out>>
            valid == SelectSeq(es, LAMBDA r : ValidEntry(r, n))
        IN  /\ Len(LastSegment) = Len(valid)
            /\ \A j \in 1..Len(valid) :
                LET p == problemList[(c - 1) * CHUNK_SIZE + valid[j].index.n + 1]
                IN  /\ LastSegment[j].questionId = p.qId
                    /\ LastSegment[j].subQuestionId = p.sqId
                    /\ (valid[j].score.t = "number" /\ valid[j].score # Overflow)
                            => LastSegment[j].score = valid[j].score.n
    /\ pc \in {"score", "log", "done"} => totalScore = SumScores(allResults)
    /\ returned.success => returned.totalScore = SumScores(returned.results)

\* a single item answered with [{"index":0,"score":10}]: score 10
C18_Witness ==
    /\ SettledOnText
    /\ Len(problemList) = 1
    /\ response.body = Text(Array(<<Entry(Num(0), Num(10))>>), FALSE, "none")
    /\ Len(allResults) = 1
    /\ allResults[1].questionId = "q1" /\ allResults[1].score = 10
    /\ SumScores(allResults) = 10

\* C19 (stage ordering): by the time any request has been issued every
\* chunk has been formed and its prompt built.
C19_StageOrdering ==
    requested # {} => Len(chunks) = NumChunks

\* the parse chain with the three steps in the order the claim gives
SpecifiedChain(text) ==
    IF Parses(text) THEN Return(JsonParse(text))
    ELSE IF HasMatch(text) /\ Parses(Match(text))
    THEN Return(JsonParse(Match(text)))
    ELSE IF HasMatch(text) /\ Parses(DoubleBackslashes(Match(text)))
    THEN Return(JsonParse(DoubleBackslashes(Match(text))))
    ELSE Throw("SyntaxError")

\* C20 (extractor fallback order): the outcome and the results of a chunk
\* answered HTTP 200 with a candidate text are those of the value that the
\* first successful step of (whole text, bracketed substring unchanged,
\* bracketed substring with backslashes doubled) yields, and the chunk
\* fails only when all three steps fail.
C20_ExtractorOrder ==
    SettledOnText =>
        LET c == Len(outcomes)
            ref == Settle(<<>>, ItemsOf(c), SpecifiedChain(response.body))
        IN  /\ outcomes[c] = ref.outcome
            /\ LastSegment = ref.results

\* what the claim gives as the score of an entry: the number, the value of
\* a numeric string, 0 for anything else
CoercedScore(sc) ==
    IF sc.t = "number" THEN sc.n
    ELSE IF sc.t = "string" /\ sc.s = "7" THEN 7
    ELSE 0

\* C21 (score coercion): every score of the result list is a finite number;
\* the result of a single-object response for the first item carries the
\* entry's number, the value of its numeric string, and 0 when the score is
\* missing, null or a non-numeric string.
C21_ScoreCoercion ==
    /\ \A k \in 1..Len(allResults) : allResults[k].score # Infinity
    /\ totalScore # Infinity
    /\ (SettledOnText /\ Parses(response.body)
            /\ ValidEntry(response.body.value, 1)) =>
        /\ Len(LastSegment) = 1
        /\ response.body.value.score # Overflow =>
                LastSegment[1].score = CoercedScore(response.body.value.score)

RECURSIVE LeftSum(_, _)
LeftSum(rs, n) ==
    IF n = 0 THEN 0
    ELSE LET before == LeftSum(rs, n - 1)
         IN  IF before = Infinity \/ rs[n].score = Infinity THEN Infinity
             ELSE before + rs[n].score

\* C23 (total score): the value submitAnswers returns on success carries
\* the result list of the grading, every chunk's contribution included, and
\* a total that is the sum of the scores of exactly those results.
C23_TotalScore ==
    returned.success =>
        /\ returned.results = allResults
        /\ apiKey => Len(returned.results) = CountUpTo(Len(outcomes))
        /\ apiKey => Len(outcomes) = NumChunks
        /\ returned.totalScore = LeftSum(returned.results, Len(returned.results))

\* five zero-scored failure results of chunk 1 and two results of chunk 2
C23_Witness ==
    /\ returned.success
    /\ Len(outcomes) = 2
    /\ outcomes[1].kind = "failed" /\ outcomes[1].count = 5
    /\ outcomes[2].kind = "ok" /\ outcomes[2].count = 2
    /\ returned.results[6].score = 10
    /\ returned.results[7].score = 10
    /\ returned.totalScore = 20

\* a 200 body that has no candidate, or whose text none of the parse
\* attempts of the code accepts
ContentError(body) ==
    \/ body.kind \in {"nocandidates", "unparseable"}
    \/ /\ body.kind = "json"
       /\ ~Parses(body)
       /\ ~(HasMatch(body) /\ Parses(DoubleBackslashes(Match(body))))

\* C24 (HTTP 200 handling): the step that receives a 200 response settles
\* the chunk at once: no retry is counted, no sleep is taken, no further
\* fetch of the request follows, and the results of the earlier chunks stay
\* as they are; when the 200 has no candidate or no parseable text the chunk
\* becomes a failed chunk with one zero-scored result per item.
C24_Http200Terminal ==
    [][(pc = "waiting" /\ response'.kind = "http" /\ response'.code = 200) =>
        /\ ChunkSettles
        /\ pc' \in {"chunk", "graded"}
        /\ retryCount' = retryCount
        /\ fetchCount' = fetchCount
        /\ sleeps' = sleeps
        /\ inflight' = {}
        /\ SubSeq(allResults', 1, Len(allResults)) = allResults
        /\ SubSeq(outcomes', 1, Len(outcomes)) = outcomes
        /\ ContentError(response'.body) =>
            /\ outcomes'[Len(outcomes')].kind = "failed"
            /\ outcomes'[Len(outcomes')].message
                    \in {"No candidates returned.", "SyntaxError"}
            /\ Len(allResults') = Len(allResults)
                    + Cardinality(PositionsOf(Len(outcomes')))
            /\ \A k \in (Len(allResults) + 1)..Len(allResults') :
                    IsSystemError(allResults'[k])
      ]_vars

\* chunk 2 ends on a 200 without candidates after one retry; chunk 1 keeps
\* its result
C24_Witness ==
    /\ JustSettled
    /\ response.code = 200 /\ response.body.kind = "nocandidates"
    /\ Len(outcomes) = 2
    /\ outcomes[1].kind = "ok" /\ outcomes[1].count = 1
    /\ outcomes[2].kind = "failed"
    /\ allResults[1].score = 10
    /\ retryCount = 1 /\ fetchCount = 2

\* the student answer the flattening must give the j-th sub-question of q
\* (j = 0: the question itself)
ExpectedAnswer(q, j) ==
    IF q.id \notin DOMAIN answers THEN StringAnswer("")
    ELSE IF j = 0 THEN answers[q.id]
    ELSE IF answers[q.id].t # "object" THEN StringAnswer("")
    ELSE IF q.subQuestions[j].id \notin DOMAIN answers[q.id].m THEN StringAnswer("")
    ELSE StringAnswer(answers[q.id].m[q.subQuestions[j].id])

\* C25 (missing answers): for every answer mapping the flattening yields all
\* its items, an item whose question key is missing, or whose sub-question
\* key is missing under a present or absent question key, has the empty
\* string as student answer, and an item whose key is present has the value
\* given.
C25_MissingAnswers ==
    Flattened =>
        /\ Len(problemList) = ItemsBefore(Len(questions) + 1)
        /\ \A k \in 1..Len(questions) :
            IF Len(questions[k].subQuestions) = 0
            THEN problemList[ItemsBefore(k) + 1].studentAnswer
                    = ExpectedAnswer(questions[k], 0)
            ELSE \A j \in 1..Len(questions[k].subQuestions) :
                    problemList[ItemsBefore(k) + j].studentAnswer
                        = ExpectedAnswer(questions[k], j)

\* q1 has no key; q2 has an object with the key of its second sub-question
C25_Witness ==
    /\ Flattened
    /\ Len(questions) = 2 /\ Len(problemList) = 4
    /\ DOMAIN answers = {"q2"}
    /\ answers["q2"].t = "object" /\ DOMAIN answers["q2"].m = {"b"}
    /\ problemList[1].studentAnswer = StringAnswer("")
    /\ problemList[2].studentAnswer = StringAnswer("")
    /\ problemList[3].studentAnswer = StringAnswer("A")
    /\ problemList[4].studentAnswer = StringAnswer("")

\* a sink has been written
SinkWritten == scoreTable # InitialScoreTable \/ responseLog # <<>>

\* every chunk request of the call has completed
GradingComplete ==
    /\ pc \in {"score", "log", "done"}
    /\ inflight = {}
    /\ apiKey => Len(outcomes) = NumChunks

BackoffSeq == SubSeq(sleeps, Len(sleeps) - BackoffSleeps + 1, Len(sleeps))

\* C27 (backoff schedule): the first backoff sleep of a request lasts 2 s
\* and each later one twice the one before (2 s, 4 s, 8 s); one sleep has
\* been taken per retry counted, the one of the latest retry being still
\* ahead while the call is about to sleep.
C27_BackoffSchedule ==
    (apiKey /\ pc \in {"fetch", "waiting", "backoff", "chunk", "graded"}) =>
        /\ BackoffSleeps = (IF pc = "backoff" THEN retryCount - 1 ELSE retryCount)
        /\ \A k \in 1..Len(BackoffSeq) :
            /\ k = 1 => BackoffSeq[k] = 2000
            /\ k > 1 => BackoffSeq[k] = 2 * BackoffSeq[k - 1]

\* chunk 2 about to be fetched a fourth time, the third retry following a
\* transport failure
C27_Witness ==
    /\ pc = "fetch"
    /\ Len(outcomes) = 1
    /\ retryCount = 3
    /\ response.kind = "exception"
    /\ sleeps = <<1000, 2000, 4000, 8000>>

\* C28 (deployed pattern title on saveQuestions): a saveQuestions call that
\* returns success leaves the stored title as it was when patternTitle is
\* left out, removes it when patternTitle is null or the empty string, and
\* stores patternTitle when it is a non-empty title.
C28_DeployedTitle ==
    [][(request'.op = "saveQuestions" /\ returned'.success) =>
        GetDeployedPatternTitle(currentPatternTitle') =
            (IF request'.patternTitle = Undefined
                THEN GetDeployedPatternTitle(currentPatternTitle)
             ELSE IF request'.patternTitle \in {Null, ""} THEN ""
             ELSE request'.patternTitle)
      ]_vars

\* what the endpoint answered to the fetches of the _callGeminiApi call in
\* progress (or of the one that just ended), as the scripted endpoint saw them
CallOutcomes ==
    LET consumed == IF stub.call = 1 THEN Len(stub.script) ELSE stub.pos - 1
        answered == fetchCount - (IF pc = "waiting" THEN 1 ELSE 0)
    IN  SubSeq(stub.script, consumed - answered + 1, consumed)

RetryableCount ==
    Cardinality({k \in 1..Len(CallOutcomes) : RetryableOutcome(CallOutcomes[k])})

\* C29 (shared retry budget): within one _callGeminiApi call the counter is
\* the number of transport failures and 429/5xx responses seen so far taken
\* together, capped at MAX_RETRIES; it never exceeds MAX_RETRIES, the call
\* issues at most MAX_RETRIES + 1 fetches, and the call for the next chunk
\* starts with the counter at zero.
C29_SharedRetryBudget ==
    pc \in {"fetch", "waiting", "backoff", "chunk", "graded"} =>
        /\ retryCount <= MAX_RETRIES
        /\ fetchCount <= MAX_RETRIES + 1
        /\ retryCount = Min(MAX_RETRIES, RetryableCount)
        /\ (pc = "fetch" /\ fetchCount = 0) => retryCount = 0

\* chunk 1 used up its budget on transport failures and 503s in turn; the
\* call for chunk 2 has seen one transport failure and counts one retry
C29_Witness ==
    /\ stub.call = 1
    /\ pc = "backoff" /\ retryCount = 1 /\ fetchCount = 1
    /\ Len(outcomes) = 1 /\ outcomes[1].kind = "failed"
    /\ Len(stub.script) = 5
    /\ stub.script[1].kind = "exception"
    /\ stub.script[2].code = 503
    /\ stub.script[3].kind = "exception"
    /\ stub.script[4].code = 503
    /\ stub.script[5].kind = "exception"

\* C30 (item order of results): along the result list the flattened
\* positions of the items named never decrease, so of two items that both
\* have a result the one flattened first has its result first, whatever the
\* order of the entries in the response of the model.
C30_ItemOrder ==
    \A a, b \in 1..Len(allResults) :
        a < b => \A pa \in PositionsNamed(allResults[a]),
                    pb \in PositionsNamed(allResults[b]) : pa <= pb

NoDuplicateTitles(rows) ==
    \A a, b \in 1..Len(rows) : a # b => rows[a].title # rows[b].title

\* position of the row that holds the title; 0 when no row does
RowOf(rows, title) ==
    IF \E k \in 1..Len(rows) : rows[k].title = title
    THEN CHOOSE k \in 1..Len(rows) : rows[k].title = title
    ELSE 0

\* the rows that do not hold the title, in their order
Without(rows, title) == SelectSeq(rows, LAMBDA r : r.title # title)

\* C31 (pattern title uniqueness): after every savePattern or deletePattern
\* call the Patterns sheet holds at most one row per title; a successful
\* savePattern on an existing title rewrites the questions and the timestamp
\* of that row and leaves every other row and the row count alone, on a new
\* title it appends one row; savePattern with an empty title changes nothing
\* and returns failure; a successful deletePattern removes the row of that
\* title and nothing else, a failed one leaves the sheet as it was.
C31_PatternUniqueness ==
    [][LET rows == patterns.rows
           title == request'.patternTitle
           k == RowOf(rows, title)
       IN  /\ NoDuplicateTitles(patterns'.rows)
           /\ request'.op = "savePattern" =>
                /\ title \in {Undefined, Null, ""} =>
                        patterns' = patterns /\ ~returned'.success
                /\ (returned'.success /\ k > 0) =>
                    /\ Len(patterns'.rows) = Len(rows)
                    /\ patterns'.rows =
                            [rows EXCEPT ![k] = [title |-> title,
                                                 questions |-> Stringify(request'.questions),
                                                 updatedAt |-> now']]
                /\ (returned'.success /\ k = 0) =>
                    /\ Len(patterns'.rows) = Len(rows) + 1
                    /\ SubSeq(patterns'.rows, 1, Len(rows)) = rows
                /\ returned'.success =>
                        GetPattern(patterns', title)
                            = [success |-> TRUE, questions |-> request'.questions]
           /\ request'.op = "deletePattern" =>
                IF returned'.success
                THEN /\ k > 0
                     /\ patterns'.rows = Without(rows, title)
                     /\ Len(patterns'.rows) = Len(rows) - 1
                ELSE patterns' = patterns
      ]_vars

\* T1 and T2 were saved, then T1 was saved again: two rows, the first one
\* with the later timestamp
C31_Witness ==
    /\ request.op = "savePattern" /\ returned.success
    /\ Len(patterns.rows) = 2
    /\ patterns.rows[1].title = request.patternTitle
    /\ patterns.rows[1].updatedAt = 3
    /\ patterns.rows[2].updatedAt = 2
    /\ patterns.rows[1].questions = Stringify(request.questions)

\* the row of the score table submitAnswers is to write: the first one whose
\* ID is the session id, 0 when the id is absent or in no row
TargetRow ==
    IF sessionId # "" /\ \E r \in 1..Len(scoreTable) : scoreTable[r].id = sessionId
    THEN CHOOSE r \in 1..Len(scoreTable) :
            /\ scoreTable[r].id = sessionId
            /\ \A q \in 1..(r - 1) : scoreTable[q].id # sessionId
    ELSE 0

\* C32 (score-table frame): a step of submitAnswers changes the score table
\* at most in the Score cell of the first row whose ID is sessionId, which
\* gets the total score, and only at the score-table stage; with sessionId
\* absent or in no row the table stays as it is, the total and the results
\* are kept, and the call goes on to the response log and returns them (it
\* returns failure only when the response-log write throws, with or without
\* a matching row); registerCandidate with an empty name throws and leaves
\* the table as it is, with a name it appends one row and changes no other.
C32_ScoreTableFrame ==
    [][/\ (pc = "score" /\ pc' = "log") =>
            /\ scoreTable' \in
                    {scoreTable} \cup
                    (IF TargetRow = 0 THEN {}
                     ELSE {[scoreTable EXCEPT ![TargetRow].score = Num(totalScore)]})
            /\ totalScore' = totalScore /\ allResults' = allResults
       /\ pc = "score" => pc' = "log"
       /\ (pc # "idle" /\ pc # "score") => scoreTable' = scoreTable
       /\ (pc = "log" /\ pc' = "done") =>
            \/ /\ returned' = Success(totalScore, allResults)
               /\ returned'.totalScore = SumScores(allResults)
            \/ /\ ~returned'.success
               /\ responseLog' = responseLog
       /\ (pc = "idle" /\ pc' = "idle") =>
            /\ request'.op = "registerCandidate"
            /\ request'.name \in {Undefined, Null, ""} =>
                    /\ scoreTable' = scoreTable
                    /\ ~returned'.success
            /\ returned'.success =>
                    /\ Len(scoreTable') = Len(scoreTable) + 1
                    /\ SubSeq(scoreTable', 1, Len(scoreTable)) = scoreTable
                    /\ scoreTable'[Len(scoreTable')].id = returned'.message
                    /\ scoreTable'[Len(scoreTable')].score = Str("")
            /\ ~returned'.success => scoreTable' = scoreTable
       /\ (pc = "idle" /\ pc' # "idle") => scoreTable' = scoreTable
      ]_vars

\* a candidate registered and got u1; the submission with u1 scored 8 and
\* the score is in the third row and in no other
C32_Witness ==
    /\ pc = "done" /\ returned.success /\ sessionId = "u1"
    /\ request.op = "registerCandidate" /\ request.name = "Cy"
    /\ Len(scoreTable) = 3
    /\ scoreTable[3] = [ScoreRow("u1", 1, "Cy", "T1") EXCEPT !.score = Num(8)]
    /\ scoreTable[1] = InitialScoreTable[1]
    /\ scoreTable[2] = InitialScoreTable[2]
    /\ totalScore = 8

====
